---- MODULE Spec2Model ----
(***************************************************************************)
(* Model of tfts/layers/embed_layer.py: the embedding layers              *)
(* TokenEmbedding, TokenRnnEmbedding, PositionalEmbedding,                 *)
(* PositionalEncoding and DataEmbedding.                                   *)
(*                                                                         *)
(* One layer object is constructed (Init) and then called repeatedly by a  *)
(* single-threaded caller: a call runs to completion and leaves its        *)
(* returned value (or the error it raised) in `out` and its arguments in   *)
(* `inp` (with first = the layer had not been built before this call);     *)
(* the caller then drops the value (Release) and may call again.           *)
(*                                                                         *)
(* `device` is the kernel tf.nn.embedding_lookup runs on, fixed for a run:  *)
(* the CPU kernel raises on an index outside the table, the GPU kernel     *)
(* stores zeros for it.                                                    *)
(*                                                                         *)
(* Numbers.  Raw inputs and weights are small integers.  A float produced  *)
(* by the positional table is kept exact and symbolic: k + term, where     *)
(* term is sin(angle) or cos(angle) of an angle pos / 10000^(n/d) with     *)
(* pos >= 1.  Such a term is never 0 (pos/10000^q is algebraic, so it is   *)
(* not a multiple of pi/2), hence "exactly zero" is k = 0 and no term.     *)
(* sin(0) = 0 and cos(0) = 1 are evaluated.                                *)
(***************************************************************************)
EXTENDS Integers, Sequences, FiniteSets, TLC

\* ------------------------------------------------------------------ bounds
MaxBatch == 2
MaxTime == 3
MaxFeat == 2
MaxEmbed == 2
MaxLen == 2

\* values an input element may take, values a freshly initialised weight may take
XVals == {0, 1, 2}
WVals == {-1, 1}

\* default of PositionalEmbedding.__init__(max_len=5000)
DefaultMaxLen == 5000
\* default of DataEmbedding.__init__(dropout=0.1), in tenths
DefaultDropout == 1
\* dropout rates tried, in tenths
DropoutRates == {0, DefaultDropout}

Devices == {"CPU", "GPU"}

VARIABLES layer, args, pc, inp, out, device

vars == <<layer, args, pc, inp, out, device>>

\* ------------------------------------------------------- numbers, tensors
NoTerm == [fn |-> "none"]

\* the real number k + t, multiplied by 1/(1 - scale/10) when scale > 0
Real(k, t, scale) == [k |-> k, t |-> t, scale |-> scale]

Num(k) == Real(k, NoTerm, 0)

IsZero(v) == v.k = 0 /\ v.t = NoTerm

RECURSIVE Gcd(_, _)
Gcd(a, b) == IF b = 0 THEN a ELSE Gcd(b, a % b)

\* the exponent n/d as a reduced fraction
Frac(n, d) == LET g == Gcd(n, d) IN <<n \div g, d \div g>>

Len0(f) == Cardinality(DOMAIN f)

\* tf.shape of a rank-3 tensor
Shape(x) == <<Len0(x), Len0(x[0]), Len0(x[0][0])>>

\* the input tensors tried: value v everywhere but w at one corner
CornerTensor(B, T, F, v, w, last) ==
    LET c == IF last THEN <<B - 1, T - 1, F - 1>> ELSE <<0, 0, 0>>
    IN [b \in 0..(B - 1) |-> [t \in 0..(T - 1) |-> [f \in 0..(F - 1) |->
           IF <<b, t, f>> = c THEN w ELSE v]]]

Inputs ==
    UNION { { CornerTensor(B, T, F, v, w, last) :
                  v \in XVals, w \in XVals, last \in BOOLEAN } :
            <<B, T, F>> \in (1..MaxBatch) \X (1..MaxTime) \X (1..MaxFeat) }

\* results of an operation: a returned value or a raised error
Ok(v) == [status |-> "ok", value |-> v]
Err(e) == [status |-> "error", value |-> e]
None == [status |-> "none"]


\* ------------------------------------------ numpy / framework primitives
\* pos / np.power(10000, n / E); the angle of position 0 is 0 whatever n is
Angle(pos, n, E) ==
    IF pos = 0 THEN [pos |-> 0, exp |-> <<0, 1>>]
    ELSE [pos |-> pos, exp |-> Frac(n, E)]

\* np.sin, np.cos of an angle
np_sin(a) == IF a.pos = 0 THEN Num(0) ELSE Real(0, [fn |-> "sin", angle |-> a], 0)

np_cos(a) == IF a.pos = 0 THEN Num(1) ELSE Real(0, [fn |-> "cos", angle |-> a], 0)

\* the indices selected by the slice start::step of an axis of length n
Stride(start, step, n) == {j \in 0..(n - 1) : j >= start /\ (j - start) % step = 0}

\* m[:, start::2] = np.sin(m[:, start::2]) on a 2-d array (shape and rows)
AssignSin(m, start) ==
    [shape |-> m.shape,
     data |-> [pos \in 0..(m.shape[1] - 1) |-> [i \in 0..(m.shape[2] - 1) |->
                  IF i \in Stride(start, 2, m.shape[2])
                  THEN np_sin(m.data[pos][i]) ELSE m.data[pos][i]]]]

\* m[:, start::2] = np.cos(m[:, start::2])
AssignCos(m, start) ==
    [shape |-> m.shape,
     data |-> [pos \in 0..(m.shape[1] - 1) |-> [i \in 0..(m.shape[2] - 1) |->
                  IF i \in Stride(start, 2, m.shape[2])
                  THEN np_cos(m.data[pos][i]) ELSE m.data[pos][i]]]]

\* np.array([[pos / np.power(10000, (i - i % 2) / E) for i in range(E)]
\*           for pos in range(max_len)])
Angles(max_len, E) ==
    [shape |-> <<max_len, E>>,
     data |-> [pos \in 0..(max_len - 1) |-> [i \in 0..(E - 1) |->
                  Angle(pos, i - (i % 2), E)]]]

\* the same array with the exponent taken from the channel i itself
Angles_per_channel(max_len, E) ==
    [shape |-> <<max_len, E>>,
     data |-> [pos \in 0..(max_len - 1) |-> [i \in 0..(E - 1) |->
                  Angle(pos, i, E)]]]

\* tf.tile(tf.expand_dims(tf.range(seq_length), 0), [batch_size, 1])
tf_range(n) == [t \in 0..(n - 1) |-> t]

tf_tile_rows(row, batch_size) == [b \in 0..(batch_size - 1) |-> row]

\* tf.nn.embedding_lookup(params, ids) for a 2-d table and 2-d ids.  An index
\* outside the table raises on a CPU kernel and stores zeros on a GPU kernel.
InTable(params, id) == id >= 0 /\ id < params.shape[1]

embedding_lookup(params, ids, dev) ==
    IF \E b \in DOMAIN ids : \E t \in DOMAIN ids[b] : ~InTable(params, ids[b][t])
    THEN IF dev = "CPU"
         THEN Err("InvalidArgumentError")
         ELSE Ok([b \in DOMAIN ids |-> [t \in DOMAIN ids[b] |->
                    IF InTable(params, ids[b][t])
                    THEN params.data[ids[b][t]]
                    ELSE [i \in 0..(params.shape[2] - 1) |-> Num(0)]]])
    ELSE Ok([b \in DOMAIN ids |-> [t \in DOMAIN ids[b] |-> params.data[ids[b][t]]]])

\* a where that keeps the table entry at zero inputs and the input elsewhere
tf_where_swapped(x, outputs) ==
    [b \in DOMAIN x |-> [t \in DOMAIN x[b] |-> [i \in DOMAIN x[b][t] |->
        IF x[b][t][i] = 0 THEN outputs[b][t][i] ELSE Num(x[b][t][i])]]]

\* tf.where(tf.equal(x, 0), x, outputs) on integer-valued x
tf_where_zero(x, outputs) ==
    [b \in DOMAIN x |-> [t \in DOMAIN x[b] |-> [i \in DOMAIN x[b][t] |->
        IF x[b][t][i] = 0 THEN Num(x[b][t][i]) ELSE outputs[b][t][i]]]]

\* a table whose exponent uses the channel i itself instead of i - i%2
position_enc_per_channel(max_len, E) ==
    AssignCos(AssignSin(Angles_per_channel(max_len, E), 0), 1)

\* the table position_enc built inside a positional call: (max_len, E)
position_enc(max_len, E) ==
    AssignCos(AssignSin(Angles(max_len, E), 0), 1)

\* dict(list(base_config.items()) + list(config.items()))
MergeConfig(base_config, config) ==
    [key \in (DOMAIN base_config) \cup (DOMAIN config) |->
        IF key \in DOMAIN config THEN config[key] ELSE base_config[key]]

\* tf.keras.layers.Layer.get_config of the base class
Layer_get_config(self) ==
    [key \in {"name", "trainable", "dtype"} |->
        CASE key = "name" -> self.cls
          [] key = "trainable" -> TRUE
          [] key = "dtype" -> "float32"]

\* ---------------------------------------------------------- TokenEmbedding
Unset == [unset |-> TRUE]

TokenEmbedding_init(embed_size) ==
    [cls |-> "TokenEmbedding", embed_size |-> embed_size, built |-> FALSE,
     token_weights |-> Unset, add_weight_calls |-> 0]

\* the matrices a random initialiser may produce for a given shape
WeightInits(rows, cols) ==
    { [f \in 0..(rows - 1) |-> [k \in 0..(cols - 1) |->
          IF (f + k) % 2 = 0 THEN a ELSE b]] : a \in WVals, b \in WVals }

\* build(input_shape): add_weight(shape=[input_shape[-1], embed_size]), w is
\* the value the initialiser drew
TokenEmbedding_build(self, input_shape, w) ==
    [self EXCEPT !.token_weights = w,
                 !.add_weight_calls = @ + 1,
                 !.built = TRUE]

RECURSIVE SumTo(_, _)
SumTo(term, n) == IF n = 0 THEN 0 ELSE term[n - 1] + SumTo(term, n - 1)

\* call(x): tf.einsum('bsf,fk->bsk', x, token_weights)
TokenEmbedding_call(self, x) ==
    LET F == Shape(x)[3]
        W == self.token_weights
    IN IF Len0(W) # F
       THEN Err("InvalidArgumentError")
       ELSE Ok([b \in DOMAIN x |-> [s \in DOMAIN x[b] |-> [k \in DOMAIN W[0] |->
                   SumTo([f \in 0..(F - 1) |-> x[b][s][f] * W[f][k]], F)]]])

\* a __call__ that runs build on every call
TokenEmbedding_apply_rebuild(self, x, w) ==
    LET built == TokenEmbedding_build(self, Shape(x), w)
    IN [self |-> built, result |-> TokenEmbedding_call(built, x)]

\* Layer.__call__: build on the first call, then call
TokenEmbedding_apply(self, x, w) ==
    LET built == IF self.built THEN self ELSE TokenEmbedding_build(self, Shape(x), w)
    IN [self |-> built, result |-> TokenEmbedding_call(built, x)]

TokenEmbedding_get_config(self) ==
    MergeConfig(Layer_get_config(self), [embed_size |-> self.embed_size])

\* ------------------------------------------------------- TokenRnnEmbedding
TokenRnnEmbedding_init(embed_size) ==
    [cls |-> "TokenRnnEmbedding", embed_size |-> embed_size, built |-> FALSE,
     rnn |-> Unset]

\* build: self.rnn = GRU(embed_size, return_sequences=True, return_state=True)
TokenRnnEmbedding_build(self, input_shape) ==
    [self EXCEPT !.rnn = [units |-> self.embed_size], !.built = TRUE]

\* call: y, _ = self.rnn(x).  The recurrent unit's arithmetic is the
\* framework's; only the shape of y, (batch, time, units), is kept.
TokenRnnEmbedding_call(self, x) ==
    Ok([b \in DOMAIN x |-> [t \in DOMAIN x[b] |->
           [k \in 0..(self.rnn.units - 1) |-> "gru"]]])

TokenRnnEmbedding_apply(self, x) ==
    LET built == IF self.built THEN self ELSE TokenRnnEmbedding_build(self, Shape(x))
    IN [self |-> built, result |-> TokenRnnEmbedding_call(built, x)]

TokenRnnEmbedding_get_config(self) ==
    MergeConfig(Layer_get_config(self), [embed_size |-> self.embed_size])

\* ----------------------------------- PositionalEmbedding, PositionalEncoding
PositionalEmbedding_init(max_len) ==
    [cls |-> "PositionalEmbedding", max_len |-> max_len, built |-> FALSE]

\* a call that never applies the mask
PositionalEmbedding_call_unmasked(self, x, masking, dev) ==
    LET E == Shape(x)[3]
        batch_size == Shape(x)[1]
        seq_length == Shape(x)[2]
        position_ind == tf_tile_rows(tf_range(seq_length), batch_size)
    IN embedding_lookup(position_enc(self.max_len, E), position_ind, dev)

PositionalEmbedding_call(self, x, masking, dev) ==
    LET E == Shape(x)[3]
        batch_size == Shape(x)[1]
        seq_length == Shape(x)[2]
        position_ind == tf_tile_rows(tf_range(seq_length), batch_size)
        outputs == embedding_lookup(position_enc(self.max_len, E), position_ind, dev)
    IN IF outputs.status = "error" THEN outputs
       ELSE IF masking THEN Ok(tf_where_zero(x, outputs.value))
       ELSE outputs

PositionalEmbedding_get_config(self) ==
    MergeConfig(Layer_get_config(self), [max_len |-> self.max_len])

PositionalEncoding_init(max_len) ==
    [cls |-> "PositionalEncoding", max_len |-> max_len, built |-> FALSE]

PositionalEncoding_call(self, x, masking, dev) ==
    LET E == Shape(x)[3]
        batch_size == Shape(x)[1]
        seq_length == Shape(x)[2]
        position_ind == tf_tile_rows(tf_range(seq_length), batch_size)
        outputs == embedding_lookup(position_enc(self.max_len, E), position_ind, dev)
    IN IF outputs.status = "error" THEN outputs
       ELSE IF masking THEN Ok(tf_where_zero(x, outputs.value))
       ELSE outputs

PositionalEncoding_get_config(self) ==
    MergeConfig(Layer_get_config(self), [max_len |-> self.max_len])

\* a build that also overwrites the layer's max_len
MarkBuilt_resets_max_len(self) ==
    IF "max_len" \in DOMAIN self
    THEN [self EXCEPT !.built = TRUE, !.max_len = 1]
    ELSE [self EXCEPT !.built = TRUE]

\* Layer.__call__ of a layer whose build only marks it built
MarkBuilt(self) == [self EXCEPT !.built = TRUE]

\* ----------------------------------------------------------- DataEmbedding
DataEmbedding_init(embed_size, dropout) ==
    [cls |-> "DataEmbedding",
     value_embedding |-> TokenEmbedding_init(embed_size),
     positional_embedding |-> PositionalEncoding_init(embed_size),
     dropout |-> [rate |-> dropout],
     built |-> FALSE]

\* the elements a dropout mask may drop: none, all, or the first one
DropMasks == {"none", "all", "first"}

Dropped(mask, b, t, k) ==
    \/ mask = "all"
    \/ mask = "first" /\ <<b, t, k>> = <<0, 0, 0>>

\* v * 1 / (1 - rate)
Scale(v, rate) == IF IsZero(v) THEN v ELSE [v EXCEPT !.scale = rate]

\* Dropout(rate)(inputs): the identity outside training and at rate 0
Dropout_call(self, inputs, training, mask) ==
    IF ~training \/ self.rate = 0 THEN inputs
    ELSE [b \in DOMAIN inputs |-> [t \in DOMAIN inputs[b] |->
            [k \in DOMAIN inputs[b][t] |->
                IF Dropped(mask, b, t, k) THEN Num(0)
                ELSE Scale(inputs[b][t][k], self.rate)]]]

\* ve + pe
tf_add(ve, pe) ==
    [b \in DOMAIN ve |-> [t \in DOMAIN ve[b] |-> [k \in DOMAIN ve[b][t] |->
        Real(ve[b][t][k] + pe[b][t][k].k, pe[b][t][k].t, 0)]]]

\* call(x): ve = value_embedding(x); pe = positional_embedding(ve);
\* return dropout(ve + pe).  Sub-layers are applied through Layer.__call__,
\* so each is built on its first use and stays built if a later step raises.
DataEmbedding_call(self, x, w, training, mask, dev) ==
    LET ve == TokenEmbedding_apply(self.value_embedding, x, w)
        self1 == [self EXCEPT !.value_embedding = ve.self]
    IN IF ve.result.status = "error" THEN [self |-> self1, result |-> ve.result]
       ELSE LET self2 == [self1 EXCEPT !.positional_embedding = MarkBuilt(@)]
                pe == PositionalEncoding_call(self2.positional_embedding,
                                              ve.result.value, TRUE, dev)
            IN IF pe.status = "error" THEN [self |-> self2, result |-> pe]
               ELSE [self |-> self2,
                     result |-> Ok(Dropout_call(self2.dropout,
                                                tf_add(ve.result.value, pe.value),
                                                training, mask))]

\* get_config returns the base configuration only
DataEmbedding_get_config(self) == Layer_get_config(self)

get_config(self) ==
    CASE self.cls = "TokenEmbedding" -> TokenEmbedding_get_config(self)
      [] self.cls = "TokenRnnEmbedding" -> TokenRnnEmbedding_get_config(self)
      [] self.cls = "PositionalEmbedding" -> PositionalEmbedding_get_config(self)
      [] self.cls = "PositionalEncoding" -> PositionalEncoding_get_config(self)
      [] self.cls = "DataEmbedding" -> DataEmbedding_get_config(self)

\* ------------------------------------------------------------ state machine
\* the layer objects a program may construct, with the constructor arguments
Constructed ==
    { <<TokenEmbedding_init(e), [embed_size |-> e]>> : e \in 1..MaxEmbed }
    \cup { <<TokenRnnEmbedding_init(e), [embed_size |-> e]>> : e \in 1..MaxEmbed }
    \cup { <<PositionalEmbedding_init(m), [max_len |-> m]>> :
               m \in (1..MaxLen) \cup {DefaultMaxLen} }
    \cup { <<PositionalEncoding_init(m), [max_len |-> m]>> : m \in 1..MaxLen }
    \cup { <<DataEmbedding_init(e, d), [embed_size |-> e, dropout |-> d]>> :
               e \in 1..MaxEmbed, d \in DropoutRates }

Init ==
    /\ \E c \in Constructed : layer = c[1] /\ args = c[2]
    /\ device \in Devices
    /\ pc = "idle"
    /\ inp = None
    /\ out = None

\* what the initialiser may draw at this call: nothing new once built
Draws(tok, x) ==
    IF tok.built THEN {tok.token_weights}
    ELSE WeightInits(Shape(x)[3], tok.embed_size)

\* what dropout may draw at this call: nothing when it is the identity
MaskDraws(self, training) ==
    IF training /\ self.dropout.rate # 0 THEN DropMasks ELSE {"none"}

CallTokenEmbedding ==
    /\ pc = "idle"
    /\ layer.cls = "TokenEmbedding"
    /\ \E x \in Inputs : \E w \in Draws(layer, x) :
          LET r == TokenEmbedding_apply(layer, x, w)
          IN /\ layer' = r.self
             /\ out' = r.result
             /\ inp' = [op |-> "call", x |-> x, first |-> ~layer.built]
    /\ pc' = "returned"
    /\ UNCHANGED <<args, device>>

CallTokenRnnEmbedding ==
    /\ pc = "idle"
    /\ layer.cls = "TokenRnnEmbedding"
    /\ \E x \in Inputs :
          LET r == TokenRnnEmbedding_apply(layer, x)
          IN /\ layer' = r.self
             /\ out' = r.result
             /\ inp' = [op |-> "call", x |-> x, first |-> ~layer.built]
    /\ pc' = "returned"
    /\ UNCHANGED <<args, device>>

CallPositionalEmbedding ==
    /\ pc = "idle"
    /\ layer.cls = "PositionalEmbedding"
    /\ \E x \in Inputs : \E masking \in BOOLEAN :
          /\ layer' = MarkBuilt(layer)
          /\ out' = PositionalEmbedding_call(MarkBuilt(layer), x, masking, device)
          /\ inp' = [op |-> "call", x |-> x, masking |-> masking,
                     first |-> ~layer.built]
    /\ pc' = "returned"
    /\ UNCHANGED <<args, device>>

CallPositionalEncoding ==
    /\ pc = "idle"
    /\ layer.cls = "PositionalEncoding"
    /\ \E x \in Inputs : \E masking \in BOOLEAN :
          /\ layer' = MarkBuilt(layer)
          /\ out' = PositionalEncoding_call(MarkBuilt(layer), x, masking, device)
          /\ inp' = [op |-> "call", x |-> x, masking |-> masking,
                     first |-> ~layer.built]
    /\ pc' = "returned"
    /\ UNCHANGED <<args, device>>

CallDataEmbedding ==
    /\ pc = "idle"
    /\ layer.cls = "DataEmbedding"
    /\ \E x \in Inputs : \E w \in Draws(layer.value_embedding, x) :
       \E training \in BOOLEAN : \E mask \in MaskDraws(layer, training) :
          LET r == DataEmbedding_call(MarkBuilt(layer), x, w, training, mask, device)
          IN /\ layer' = r.self
             /\ out' = r.result
             /\ inp' = [op |-> "call", x |-> x, training |-> training, mask |-> mask,
                        first |-> ~layer.built]
    /\ pc' = "returned"
    /\ UNCHANGED <<args, device>>

GetConfig ==
    /\ pc = "idle"
    /\ out' = Ok(get_config(layer))
    /\ inp' = [op |-> "get_config"]
    /\ pc' = "returned"
    /\ UNCHANGED <<layer, args, device>>

\* the caller drops the returned value
Release ==
    /\ pc = "returned"
    /\ pc' = "idle"
    /\ inp' = None
    /\ out' = None
    /\ UNCHANGED <<layer, args, device>>

Next ==
    \/ CallTokenEmbedding
    \/ CallTokenRnnEmbedding
    \/ CallPositionalEmbedding
    \/ CallPositionalEncoding
    \/ CallDataEmbedding
    \/ GetConfig
    \/ Release

Spec == Init /\ [][Next]_vars

\* ------------------------------------------------------------- properties
Called(classes) == pc = "returned" /\ inp.op = "call" /\ layer.cls \in classes

Positional == {"PositionalEmbedding", "PositionalEncoding"}

\* sin(pos / 10000^((i - i%2)/E)) on even channels, cos of it on odd ones
ClosedForm(pos, i, E) ==
    LET a == Angle(pos, i - (i % 2), E)
    IN IF i % 2 = 0 THEN np_sin(a) ELSE np_cos(a)

Indices(x) ==
    (0..(Shape(x)[1] - 1)) \X (0..(Shape(x)[2] - 1)) \X (0..(Shape(x)[3] - 1))

\* C1: get_config of every layer class contains every constructor
\* hyperparameter with the value the instance was built with.
C1_ConfigRoundTrip ==
    (pc = "returned" /\ inp.op = "get_config") =>
        \A h \in DOMAIN args :
            h \in DOMAIN out.value /\ out.value[h] = args[h]

\* C2: TokenEmbedding.call and DataEmbedding.call return a tensor of shape
\* (batch, time, embed_size) for every rank-3 input whose feature size is the
\* one the weight matrix was built for.
C2_OutputShape ==
    Called({"TokenEmbedding", "DataEmbedding"}) =>
        LET tok == IF layer.cls = "TokenEmbedding" THEN layer
                   ELSE layer.value_embedding
        IN Len0(tok.token_weights) = Shape(inp.x)[3] =>
              /\ out.status = "ok"
              /\ Shape(out.value) =
                    <<Shape(inp.x)[1], Shape(inp.x)[2], args.embed_size>>

RowsChecked(table) == {pos \in 0..(MaxTime + 1) : InTable(table, pos)}

\* C4: the table built by a positional call has max_len rows and E columns
\* (E the last axis of the input); entry (pos, i) is sin(angle) for even i and
\* cos(angle) for odd i with angle = pos / 10000^((i - i%2)/E); channels 2k and
\* 2k+1 share their angle; row 0 is 0 on even and 1 on odd channels.
C4_TableStructure ==
    Called(Positional) =>
        LET E == Shape(inp.x)[3]
            table == position_enc(layer.max_len, E)
        IN /\ table.shape[1] = layer.max_len
           /\ table.shape[2] = E
           /\ \A pos \in RowsChecked(table) :
                 LET row == table.data[pos]
                 IN /\ DOMAIN row = 0..(E - 1)
                    /\ \A i \in 0..(E - 1) :
                          /\ row[i] = ClosedForm(pos, i, E)
                          /\ (pos = 0 /\ i % 2 = 0) => row[i] = Num(0)
                          /\ (pos = 0 /\ i % 2 = 1) => row[i] = Num(1)
                          /\ (pos > 0 /\ i % 2 = 1) =>
                                /\ row[i].t.fn = "cos"
                                /\ row[i - 1].t.fn = "sin"
                                /\ row[i].t.angle = row[i - 1].t.angle
           /\ (~inp.masking /\ out.status = "ok") =>
                 \A p \in Indices(inp.x) :
                    InTable(table, p[2]) =>
                       out.value[p[1]][p[2]][p[3]] = ClosedForm(p[2], p[3], E)

\* an unmasked call that read a row beyond row 0 of a table with an odd channel
C4_Witness ==
    /\ Called(Positional)
    /\ ~inp.masking
    /\ out.status = "ok"
    /\ Shape(inp.x)[3] >= 2
    /\ Shape(inp.x)[2] >= 2
    /\ layer.max_len >= 2
    /\ out.value[0][1][1].t.fn = "cos"

\* C5: over any sequence of calls on a TokenEmbedding, the first call creates
\* token_weights once with shape (input_feature_size, embed_size), and no
\* later step creates it again or changes it.
C5_TokenWeightLifecycle ==
    [][layer.cls = "TokenEmbedding" =>
          IF layer.built
          THEN /\ layer'.token_weights = layer.token_weights
               /\ layer'.add_weight_calls = layer.add_weight_calls
               /\ layer.add_weight_calls = 1
          ELSE /\ layer.add_weight_calls = 0
               /\ layer.token_weights = Unset
               /\ (pc' = "returned" /\ inp'.op = "call") =>
                     /\ layer'.built
                     /\ layer'.add_weight_calls = 1
                     /\ Len0(layer'.token_weights) = Shape(inp'.x)[3]
                     /\ \A f \in DOMAIN layer'.token_weights :
                           Len0(layer'.token_weights[f]) = args.embed_size]_vars

\* a call on an already built TokenEmbedding that returned a tensor
C5_Witness ==
    /\ Called({"TokenEmbedding"})
    /\ ~inp.first
    /\ out.status = "ok"
    /\ layer.add_weight_calls = 1

\* the tensor with the same shape and zero pattern as x and 1 elsewhere
ZeroPattern(x) ==
    [b \in DOMAIN x |-> [t \in DOMAIN x[b] |-> [i \in DOMAIN x[b][t] |->
        IF x[b][t][i] = 0 THEN 0 ELSE 1]]]

\* C6: after any sequence of earlier calls, a positional call returns what a
\* freshly constructed layer with the same max_len returns for any input of
\* the same shape and zero pattern: the result depends only on the input's
\* shape, its zero pattern, the masking flag and max_len.
C6_PositionalStateless ==
    Called(Positional) =>
        out = IF layer.cls = "PositionalEncoding"
              THEN PositionalEncoding_call(PositionalEncoding_init(args.max_len),
                                           ZeroPattern(inp.x), inp.masking, device)
              ELSE PositionalEmbedding_call(PositionalEmbedding_init(args.max_len),
                                            ZeroPattern(inp.x), inp.masking, device)

\* a later call of a positional layer, on an input with an element other
\* than 0 and 1, that read a table row beyond row 0
C6_Witness ==
    /\ Called(Positional)
    /\ ~inp.first
    /\ out.status = "ok"
    /\ inp.x # ZeroPattern(inp.x)
    /\ Shape(inp.x)[2] >= 2
    /\ layer.max_len >= 2

\* C7: a call of a built TokenEmbedding whose input feature size differs from
\* the built one, and a call of a positional layer with a sequence longer than
\* max_len, each end in an error, and leave weights and hyperparameters unchanged.
C7_MismatchRaises ==
    [][(pc = "idle" /\ pc' = "returned" /\ inp'.op = "call") =>
          /\ (/\ layer.cls = "TokenEmbedding"
              /\ layer.built
              /\ Shape(inp'.x)[3] # Len0(layer.token_weights))
                => /\ out'.status = "error"
                   /\ layer'.token_weights = layer.token_weights
                   /\ layer'.embed_size = layer.embed_size
          /\ (/\ layer.cls \in Positional
              /\ Shape(inp'.x)[2] > layer.max_len)
                => /\ out'.status = "error"
                   /\ layer'.max_len = layer.max_len]_vars

\* C8: every position index looked up by the positional layer inside a
\* DataEmbedding is a row of its table, whatever the sequence length is.
C8_LookupInsideTable ==
    (Called({"DataEmbedding"})
        /\ Len0(layer.value_embedding.token_weights) = Shape(inp.x)[3]) =>
        LET inner == layer.positional_embedding
            table == position_enc(inner.max_len, args.embed_size)
        IN \A t \in 0..(Shape(inp.x)[2] - 1) : InTable(table, t)

\* C9: with dropout inactive, DataEmbedding.call returns ve + pe with the mask
\* taken from ve: element (b,t,k) is 0 when ve[b,t,k] is exactly zero and
\* ve[b,t,k] + table[t,k] otherwise.
C9_Composition ==
    (Called({"DataEmbedding"})
        /\ (~inp.training \/ layer.dropout.rate = 0)
        /\ Len0(layer.value_embedding.token_weights) = Shape(inp.x)[3]) =>
        LET ve == TokenEmbedding_call(layer.value_embedding, inp.x).value
            E == args.embed_size
        IN /\ out.status = "ok"
           /\ \A p \in Indices(ve) :
                 LET v == ve[p[1]][p[2]][p[3]]
                     entry == ClosedForm(p[2], p[3], E)
                 IN out.value[p[1]][p[2]][p[3]] =
                       IF v = 0 THEN Num(0) ELSE Real(v + entry.k, entry.t, 0)

\* C10: PositionalEmbedding and PositionalEncoding built with the same max_len
\* return the same result (or the same error) for the same input and masking
\* flag, and their get_config carry the same max_len.
C10_PositionalEquivalent ==
    (pc = "returned" /\ layer.cls \in Positional) =>
        LET encoding == [PositionalEncoding_init(layer.max_len)
                            EXCEPT !.built = layer.built]
            embedding == [PositionalEmbedding_init(layer.max_len)
                             EXCEPT !.built = layer.built]
        IN IF inp.op = "call"
           THEN out = IF layer.cls = "PositionalEncoding"
                      THEN PositionalEmbedding_call(embedding, inp.x, inp.masking, device)
                      ELSE PositionalEncoding_call(encoding, inp.x, inp.masking, device)
           ELSE out.value["max_len"] =
                   IF layer.cls = "PositionalEncoding"
                   THEN PositionalEmbedding_get_config(embedding)["max_len"]
                   ELSE PositionalEncoding_get_config(encoding)["max_len"]

\* a masked PositionalEncoding call on an input with zero and nonzero elements
C10_Witness ==
    /\ Called({"PositionalEncoding"})
    /\ inp.masking
    /\ out.status = "ok"
    /\ \E p \in Indices(inp.x) : inp.x[p[1]][p[2]][p[3]] = 0
    /\ \E p \in Indices(inp.x) : inp.x[p[1]][p[2]][p[3]] # 0
    /\ \E p \in Indices(inp.x) : ~IsZero(out.value[p[1]][p[2]][p[3]])

====
